---------------------------- MODULE Spec2Model ----------------------------
(***************************************************************************)
(* Utility-accounts dashboard: the account listing endpoint, the payment   *)
(* endpoint, the client-side validation schema, the dashboard (Home) and   *)
(* the payment overlay (PaymentForm).                                       *)
(*                                                                         *)
(* Strings the code inspects character by character (amount, card number,  *)
(* expiry, CVV) are sequences of one-character strings; strings the code   *)
(* only compares as a whole (account ids, account types, messages) are     *)
(* TLA+ strings.                                                           *)
(***************************************************************************)
EXTENDS Integers, Sequences, FiniteSets, TLC

VARIABLES
    store,            \* route getAccounts: the module-level accounts array
    conns,            \* server: the requests being handled, one per slot
    now,              \* the clock: [y, m] of new Date(), m in 0..11
    accounts,         \* Home: useState<Account[]>([])
    selectedAccount,  \* Home: useState<Account | null>(null)
    selectedType,     \* Home: useState<AccountType>("ALL")
    loading,          \* Home: useState(true)
    fetchPc,          \* Home: where the fetchAccounts call stands
    nFetch,           \* number of GET /api/getAccounts calls the dashboard issued
    instance,         \* number of PaymentForm instances mounted so far
    focused,          \* PaymentForm: useState("")
    isProcessing,     \* PaymentForm: useState(false)
    paymentError,     \* PaymentForm: useState<string | null>(null)
    form,             \* PaymentForm: the react-hook-form field values
    lastToast,        \* the notification the last toast call showed
    subs,             \* handlePaymentSubmit calls that have not finished yet
    expiryInput,      \* the string handed to paymentSchema.expiryDate
    expiryResult,     \* what paymentSchema.expiryDate answered for it
    fmtInput,         \* the raw string handed to a formatter or to paymentSchema.cvv
    fmtOutput         \* what was applied to it and what came back

apiVars == <<store, conns>>
homeVars == <<accounts, selectedAccount, selectedType, loading, fetchPc, nFetch>>
overlayVars == <<instance, focused, isProcessing, paymentError, form, lastToast, subs>>
expiryVars == <<expiryInput, expiryResult>>
fmtVars == <<fmtInput, fmtOutput>>
vars == <<store, conns, now, accounts, selectedAccount, selectedType, loading,
          fetchPc, nFetch, instance, focused, isProcessing, paymentError, form,
          lastToast, subs, expiryInput, expiryResult, fmtInput, fmtOutput>>

---------------------------------------------------------------------------
(* Bounds of the model.                                                    *)

MaxTyped == 3         \* characters of a formatter input ahead of its tail
MaxInFlight == 2      \* requests the server handles at the same time
MaxOpens == 2         \* PaymentForm instances mounted in one behaviour
MaxSubmits == 2       \* handlePaymentSubmit calls per PaymentForm instance
MaxAccounts == 3      \* length of the account lists the filter is tried on

---------------------------------------------------------------------------
(* Characters and strings.                                                 *)

Digit == {"0", "1", "2", "3", "4", "5", "6", "7", "8", "9"}

DigitVal(c) ==
    CASE c = "0" -> 0 [] c = "1" -> 1 [] c = "2" -> 2 [] c = "3" -> 3
      [] c = "4" -> 4 [] c = "5" -> 5 [] c = "6" -> 6 [] c = "7" -> 7
      [] c = "8" -> 8 [] c = "9" -> 9

AllDigits(s) == \A i \in 1..Len(s) : s[i] \in Digit

\* String.prototype.slice(from) with a negative from: the last -from characters,
\* or the whole string when it is shorter.
SliceLast(s, n) ==
    IF Len(s) <= n THEN s ELSE SubSeq(s, Len(s) - n + 1, Len(s))

\* String.prototype.slice(0, n)
SliceFirst(s, n) ==
    IF Len(s) <= n THEN s ELSE SubSeq(s, 1, n)

\* parseInt of a string of decimal digits
RECURSIVE parseInt(_)
parseInt(s) ==
    IF Len(s) = 0 THEN 0
    ELSE 10 * parseInt(SubSeq(s, 1, Len(s) - 1)) + DigitVal(s[Len(s)])

\* the position of the first c in s, 0 when there is none
IndexOf(s, c) ==
    IF \E i \in 1..Len(s) : s[i] = c
    THEN CHOOSE i \in 1..Len(s) : s[i] = c /\ \A j \in 1..(i - 1) : s[j] # c
    ELSE 0

---------------------------------------------------------------------------
(* paymentSchema: the client-side validation rules.                        *)

\* /^\d+(\.\d{1,2})?$/
AmountRegex(s) ==
    LET dot == IndexOf(s, ".") IN
    IF dot = 0
    THEN Len(s) >= 1 /\ AllDigits(s)
    ELSE /\ dot >= 2
         /\ AllDigits(SubSeq(s, 1, dot - 1))
         /\ Len(s) - dot \in 1..2
         /\ AllDigits(SubSeq(s, dot + 1, Len(s)))

\* parseFloat(val) in hundredths, for a val the regex accepts
AmountCents(s) ==
    LET dot == IndexOf(s, ".") IN
    IF dot = 0
    THEN 100 * parseInt(s)
    ELSE LET frac == SubSeq(s, dot + 1, Len(s)) IN
         100 * parseInt(SubSeq(s, 1, dot - 1))
           + (IF Len(frac) = 1 THEN 10 * parseInt(frac) ELSE parseInt(frac))

AmountValid(s) ==
    /\ Len(s) >= 1
    /\ AmountRegex(s)
    /\ AmountCents(s) > 0

\* /^\d{2}\/\d{2}$/
ExpiryRegex(s) ==
    /\ Len(s) = 5
    /\ s[1] \in Digit /\ s[2] \in Digit
    /\ s[3] = "/"
    /\ s[4] \in Digit /\ s[5] \in Digit

\* new Date(year, monthIndex): a monthIndex outside 0..11 rolls over into the
\* neighbouring years; the instant is the first millisecond of that month.
NewDate(year, monthIndex) ==
    [y |-> year + (monthIndex \div 12), m |-> monthIndex % 12]

\* expiry > new Date(): expiry is the start of a month, the clock is some instant
\* inside its month, so expiry is later exactly when its month is a later one.
DateAfter(expiry, clock) ==
    \/ expiry.y > clock.y
    \/ expiry.y = clock.y /\ expiry.m > clock.m

\* The refinement without its month <= 12 conjunct.
ExpiryRefineNoMonthCheck(s, clock) ==
    LET month == SubSeq(s, 1, 2)
        year == SubSeq(s, 4, 5)
        expiry == NewDate(2000 + parseInt(year), parseInt(month) - 1)
    IN  DateAfter(expiry, clock)

ExpiryRefine(s, clock) ==
    LET month == SubSeq(s, 1, 2)
        year == SubSeq(s, 4, 5)
        expiry == NewDate(2000 + parseInt(year), parseInt(month) - 1)
    IN  DateAfter(expiry, clock) /\ parseInt(month) <= 12

ExpiryValid(s, clock) ==
    /\ Len(s) >= 1
    /\ ExpiryRegex(s)
    /\ ExpiryRefine(s, clock)

\* value.replace(/\s+|-/g, ""): the characters that are neither spaces nor dashes
RECURSIVE StripSeparators(_)
StripSeparators(s) ==
    IF Len(s) = 0 THEN <<>>
    ELSE IF s[1] \in {" ", "-"} THEN StripSeparators(Tail(s))
    ELSE <<s[1]>> \o StripSeparators(Tail(s))

\* the checksum's sum over the digits of s, the last digit counted once
RECURSIVE LuhnSum(_, _)
LuhnSum(s, double) ==
    IF Len(s) = 0 THEN 0
    ELSE LET d == DigitVal(s[Len(s)])
             v == IF ~double THEN d ELSE IF 2 * d > 9 THEN 2 * d - 9 ELSE 2 * d
         IN  v + LuhnSum(SubSeq(s, 1, Len(s) - 1), ~double)

\* Payment.fns.validateCardNumber: the card-number checksum
validateCardNumber(s) ==
    LET num == StripSeparators(s) IN
    /\ Len(num) >= 1
    /\ AllDigits(num)
    /\ LuhnSum(num, FALSE) % 10 = 0

CardNumberValid(s) ==
    /\ Len(s) >= 1
    /\ validateCardNumber(s)

\* /^\d{3,4}$/
CvvValid(s) ==
    /\ Len(s) >= 1
    /\ Len(s) \in 3..4
    /\ AllDigits(s)

---------------------------------------------------------------------------
(* The account store and GET /api/getAccounts.                             *)

InitialAccounts ==
    << [id |-> "A-0001", type |-> "ELECTRICITY", balance |-> 30,
        address |-> "1 Greville Ct, Thomastown, 3076, Victoria"],
       [id |-> "A-0002", type |-> "GAS", balance |-> 0,
        address |-> "74 Taltarni Rd, Yawong Hills, 3478, Victoria"],
       [id |-> "A-0003", type |-> "ELECTRICITY", balance |-> -40,
        address |-> "44 William Road, Cresswell Downs, 0862, Northern Territory"],
       [id |-> "A-0004", type |-> "ELECTRICITY", balance |-> 50,
        address |-> "87 Carolina Park Road, Forresters Beach, 2260, New South Wales"],
       [id |-> "A-0005", type |-> "GAS", balance |-> 25,
        address |-> "12 Sunset Blvd, Redcliffe, 4020, Queensland"],
       [id |-> "A-0006", type |-> "ELECTRICITY", balance |-> -15,
        address |-> "3 Ocean View Dr, Torquay, 3228, Victoria"],
       [id |-> "A-0007", type |-> "GAS", balance |-> 0,
        address |-> "150 Greenway Cres, Mawson Lakes, 5095, South Australia"],
       [id |-> "A-0008", type |-> "ELECTRICITY", balance |-> 120,
        address |-> "88 Harbour St, Sydney, 2000, New South Wales"],
       [id |-> "A-0009", type |-> "GAS", balance |-> -60,
        address |-> "22 Boulder Rd, Kalgoorlie, 6430, Western Australia"] >>

\* NextResponse.json(accounts)
GetResponse(st) == [status |-> 200, json |-> st]

---------------------------------------------------------------------------
(* POST /api/processPayment.                                               *)
(*                                                                         *)
(* A request body is [kind |-> "malformed"] (request.json() throws), or    *)
(* [kind |-> "json", value |-> v] with v either [t |-> "null"] (a JSON     *)
(* value that is no object) or [t |-> "object", f |-> fields], fields a    *)
(* function from PaymentFields to field values: [t |-> "missing"],         *)
(* [t |-> "number"] (present, not a string) or [t |-> "string", s |-> s].  *)

PaymentFields ==
    <<"amount", "cardNumber", "expiryDate", "cvv", "accountId", "accountType">>

AccountTypeEnum == {"ELECTRICITY", "GAS"}

Missing == [t |-> "missing"]
NonString == [t |-> "number"]
Str(s) == [t |-> "string", s |-> s]

\* z.string(): the issue for a field value, or none
StringIssue(field, v) ==
    IF v.t = "string" THEN <<>>
    ELSE << [path |-> <<field>>, code |-> "invalid_type",
             message |-> IF v.t = "missing" THEN "Required"
                         ELSE "Expected string, received number"] >>

\* An enum field checked as a plain string.
EnumIssueAnyString(field, v) == StringIssue(field, v)

\* z.enum(["ELECTRICITY", "GAS"])
EnumIssue(field, v) ==
    IF v.t # "string"
    THEN << [path |-> <<field>>, code |-> "invalid_type",
             message |-> IF v.t = "missing" THEN "Required"
                         ELSE "Expected 'ELECTRICITY' | 'GAS', received number"] >>
    ELSE IF v.s \in AccountTypeEnum THEN <<>>
    ELSE << [path |-> <<field>>, code |-> "invalid_enum_value",
             message |-> "Invalid enum value", received |-> v.s] >>

\* paymentRequestSchema.parse(body): the issues of the ZodError it throws, none
\* when it returns
paymentRequestSchema(v) ==
    IF v.t # "object"
    THEN << [path |-> <<>>, code |-> "invalid_type",
             message |-> "Expected object, received null"] >>
    ELSE StringIssue("amount", v.f["amount"])
           \o StringIssue("cardNumber", v.f["cardNumber"])
           \o StringIssue("expiryDate", v.f["expiryDate"])
           \o StringIssue("cvv", v.f["cvv"])
           \o StringIssue("accountId", v.f["accountId"])
           \o EnumIssue("accountType", v.f["accountType"])

\* "****" + validatedData.cardNumber.slice(-4)
MaskCardNumber(s) == <<"*", "*", "*", "*">> \o SliceLast(s, 4)

\* the object of the console.log("Payment data validated:", ...) call
ValidatedLog(f) ==
    [line |-> "Payment data validated:",
     amount |-> f["amount"].s,
     cardNumber |-> MaskCardNumber(f["cardNumber"].s),
     expiryDate |-> f["expiryDate"].s,
     cvv |-> <<"*", "*", "*">>,
     accountId |-> f["accountId"].s,
     accountType |-> f["accountType"].s]

\* The handler from the return of request.json() on: what it answers and
\* what it writes to the console.
PostOutcome(body) ==
    IF body.kind = "malformed"
    THEN [status |-> 500,
          json |-> [success |-> FALSE, message |-> "Payment processing failed"],
          console |-> << [line |-> "Payment processing error:",
                          error |-> "SyntaxError"] >>]
    ELSE LET issues == paymentRequestSchema(body.value) IN
         IF issues # <<>>
         THEN [status |-> 400,
               json |-> [success |-> FALSE, message |-> "Invalid payment data",
                         errors |-> issues],
               console |-> << [line |-> "Payment processing error:",
                               error |-> "ZodError", issues |-> issues] >>]
         ELSE [status |-> 200,
               json |-> [success |-> TRUE,
                         message |-> "Payment processed successfully"],
               console |-> << ValidatedLog(body.value.f) >>]

\* A handler that settled the payment against the first account.
StoreAfterPostDebit(st, body) ==
    IF body.kind = "json" /\ paymentRequestSchema(body.value) = <<>>
    THEN [st EXCEPT ![1].balance = 0]
    ELSE st

\* The handler's effect on the account store: it never touches it.
StoreAfterPost(st, body) == st

---------------------------------------------------------------------------
(* The server handling requests: SpecApi.                                  *)
(* GET awaits its artificial delay and POST awaits request.json(), so each *)
(* handler runs in two steps and the handlers of different requests        *)
(* interleave.                                                             *)

Free == [pc |-> "free"]

Slots == 1..MaxInFlight

CardSample == <<"4", "2", "4", "2", "4", "2", "4", "2",
                "4", "2", "4", "2", "4", "2", "4", "2">>

AmountSamples == {Missing, Str(<<"-", "5">>), Str(<<"5", "0", ".", "0", "0">>)}
CardSamples == {NonString, Str(<<"1", "2", "3">>), Str(CardSample)}
TypeSamples == {Missing, Str("GAS"), Str("WATER")}

ObjectBody(amount, card, type) ==
    [kind |-> "json",
     value |-> [t |-> "object",
                f |-> [x \in {"amount", "cardNumber", "expiryDate", "cvv",
                              "accountId", "accountType"} |->
                         CASE x = "amount" -> amount
                           [] x = "cardNumber" -> card
                           [] x = "expiryDate" -> Str(<<"1", "2", "/", "3", "0">>)
                           [] x = "cvv" -> Str(<<"9", "8", "7">>)
                           [] x = "accountId" -> Str("A-0001")
                           [] x = "accountType" -> type]]]

Bodies ==
    {[kind |-> "malformed"], [kind |-> "json", value |-> [t |-> "null"]]}
      \cup {ObjectBody(a, c, ty) :
              a \in AmountSamples, c \in CardSamples, ty \in TypeSamples}

Clock0 == [y |-> 2026, m |-> 10]

ApiInit ==
    /\ store = InitialAccounts
    /\ conns = [i \in Slots |-> Free]

ClockInit == now = Clock0

\* null, for a state that holds a record or null
Null == [null |-> TRUE]

\* Home's useState initial values, before its mount effect has run
HomeIdle ==
    /\ accounts = <<>>
    /\ selectedAccount = Null
    /\ selectedType = "ALL"
    /\ loading = TRUE
    /\ fetchPc = [pc |-> "unmounted"]
    /\ nFetch = 0

EmptyForm ==
    [amount |-> <<>>, cardNumber |-> <<>>, expiryDate |-> <<>>, cvv |-> <<>>]

\* An overlay that starts in the submitting state.
FreshOverlayProcessing ==
    [focused |-> "", isProcessing |-> TRUE, paymentError |-> Null,
     form |-> EmptyForm]

\* PaymentForm's useState and useForm initial values
FreshOverlay ==
    [focused |-> "", isProcessing |-> FALSE, paymentError |-> Null,
     form |-> EmptyForm]

OverlayIdle ==
    /\ instance = 0
    /\ focused = ""
    /\ isProcessing = FALSE
    /\ paymentError = Null
    /\ form = EmptyForm
    /\ lastToast = "none"
    /\ subs = <<>>

ExpiryIdle ==
    /\ expiryInput = <<>>
    /\ expiryResult = "none"

FormatIdle ==
    /\ fmtInput = <<>>
    /\ fmtOutput = [fn |-> "none"]

\* what no handler of the server touches
ApiFrame == UNCHANGED <<now, homeVars, overlayVars, expiryVars, fmtVars>>

\* GET up to its await of the delay
GetStart(i) ==
    /\ conns[i].pc = "free"
    /\ conns' = [conns EXCEPT ![i] = [pc |-> "delay", method |-> "GET"]]
    /\ UNCHANGED store
    /\ ApiFrame

\* GET after the delay
GetFinish(i) ==
    /\ conns[i].pc = "delay"
    /\ conns' = [conns EXCEPT ![i] = [pc |-> "responded", method |-> "GET",
                                      response |-> GetResponse(store)]]
    /\ UNCHANGED store
    /\ ApiFrame

\* POST up to its await of request.json()
PostStart(i, body) ==
    /\ conns[i].pc = "free"
    /\ conns' = [conns EXCEPT ![i] =
                   [pc |-> "json", method |-> "POST", body |-> body,
                    console |-> << [line |-> "Processing payment..."] >>]]
    /\ UNCHANGED store
    /\ ApiFrame

\* POST from the return of request.json() to its response
PostFinish(i) ==
    /\ conns[i].pc = "json"
    /\ LET out == PostOutcome(conns[i].body) IN
       conns' = [conns EXCEPT ![i] =
                   [pc |-> "responded", method |-> "POST", body |-> conns[i].body,
                    response |-> [status |-> out.status, json |-> out.json],
                    console |-> conns[i].console \o out.console]]
    /\ store' = StoreAfterPost(store, conns[i].body)
    /\ ApiFrame

\* the response has left the server
Deliver(i) ==
    /\ conns[i].pc = "responded"
    /\ conns' = [conns EXCEPT ![i] = Free]
    /\ UNCHANGED store
    /\ ApiFrame

InitApi ==
    ApiInit /\ ClockInit /\ HomeIdle /\ OverlayIdle /\ ExpiryIdle /\ FormatIdle

NextApi ==
    \/ \E i \in Slots : GetStart(i)
    \/ \E i \in Slots : GetFinish(i)
    \/ \E i \in Slots, body \in Bodies : PostStart(i, body)
    \/ \E i \in Slots : PostFinish(i)
    \/ \E i \in Slots : Deliver(i)

SpecApi == InitApi /\ [][NextApi]_vars

---------------------------------------------------------------------------
(* Claims about the server (SpecApi).                                      *)

PostAnswered(i) == conns[i].pc = "responded" /\ conns[i].method = "POST"

GetAnswered(i) == conns[i].pc = "responded" /\ conns[i].method = "GET"

IsObjectBody(b) == b.kind = "json" /\ b.value.t = "object"

\* the fields of an object body that break their PaymentInput rule
FailingFields(f, clock) ==
    {x \in DOMAIN f :
        \/ f[x].t # "string"
        \/ x = "amount" /\ ~AmountValid(f[x].s)
        \/ x = "cardNumber" /\ ~CardNumberValid(f[x].s)
        \/ x = "expiryDate" /\ ~ExpiryValid(f[x].s, clock)
        \/ x = "cvv" /\ ~CvvValid(f[x].s)
        \/ x = "accountType" /\ f[x].s \notin {"ELECTRICITY", "GAS"}}

\* C1: every POST whose body has a field that breaks its PaymentInput rule
\* (amount a positive decimal with at most 2 decimals, checksum-valid card
\* number, MM/YY expiry not in the past, 3-4 digit CVV) is answered 400 with
\* success = false and an errors list naming a failing field, never 200.
C1_EndpointValidatesFields ==
    \A i \in Slots :
        (PostAnswered(i) /\ IsObjectBody(conns[i].body)
           /\ FailingFields(conns[i].body.value.f, now) # {})
        => /\ conns[i].response.status = 400
           /\ conns[i].response.json.success = FALSE
           /\ \E k \in 1..Len(conns[i].response.json.errors) :
                LET path == conns[i].response.json.errors[k].path IN
                Len(path) = 1
                  /\ path[1] \in FailingFields(conns[i].body.value.f, now)

\* a body that parses as JSON and satisfies the request schema, stated on the
\* body alone
PassesSchema(b) ==
    /\ IsObjectBody(b)
    /\ \A x \in {"amount", "cardNumber", "expiryDate", "cvv", "accountId"} :
         b.value.f[x].t = "string"
    /\ b.value.f["accountType"].t = "string"
    /\ b.value.f["accountType"].s \in {"ELECTRICITY", "GAS"}

\* C2: every answered POST ended in exactly one of three outcomes: 200 with
\* {success: true, message} when the body parses and passes the schema; 400
\* with {success: false, message, errors} when it parses as JSON but violates
\* the schema; 500 with {success: false, message} and no errors list when the
\* body is malformed JSON.
C2_ThreeOutcomes ==
    \A i \in Slots :
        PostAnswered(i) =>
            LET b == conns[i].body
                r == conns[i].response
            IN  /\ PassesSchema(b) =>
                     /\ r.status = 200
                     /\ DOMAIN r.json = {"success", "message"}
                     /\ r.json.success = TRUE
                /\ (b.kind = "json" /\ ~PassesSchema(b)) =>
                     /\ r.status = 400
                     /\ DOMAIN r.json = {"success", "message", "errors"}
                     /\ r.json.success = FALSE
                     /\ Len(r.json.errors) >= 1
                /\ b.kind = "malformed" =>
                     /\ r.status = 500
                     /\ DOMAIN r.json = {"success", "message"}
                     /\ r.json.success = FALSE

\* a malformed body answered 500 beside a schema violation answered 400
C2_Witness ==
    \E i, j \in Slots :
        /\ PostAnswered(i) /\ conns[i].body.kind = "malformed"
        /\ conns[i].response.status = 500
        /\ PostAnswered(j) /\ IsObjectBody(conns[j].body)
        /\ conns[j].body.value.f["accountType"] = Str("WATER")
        /\ conns[j].response.status = 400

\* C3: the account store is never mutated: whatever GET and POST requests
\* were handled and however they interleaved, the store is the fixed list
\* and every GET answers that complete list, in its order, with unique ids
\* and unchanged balances.
C3_StoreNeverMutated ==
    /\ store = InitialAccounts
    /\ \A i \in Slots :
         GetAnswered(i) =>
            LET list == conns[i].response.json IN
            /\ conns[i].response.status = 200
            /\ Len(list) = 9
            /\ \A k \in 1..9 :
                 /\ list[k].id = InitialAccounts[k].id
                 /\ list[k].type = InitialAccounts[k].type
                 /\ list[k].balance = InitialAccounts[k].balance
                 /\ list[k].address = InitialAccounts[k].address
            /\ \A k, l \in 1..9 : list[k].id = list[l].id => k = l

\* a GET answered after a payment was accepted
C3_Witness ==
    \E i, j \in Slots :
        /\ PostAnswered(i) /\ conns[i].response.status = 200
        /\ GetAnswered(j)

\* needle occurs in hay as a contiguous run of characters
Contains(hay, needle) ==
    \E k \in 0..(Len(hay) - Len(needle)) :
        SubSeq(hay, k + 1, k + Len(needle)) = needle

\* the character strings a console line shows
ShownStrings(line) ==
    IF line.line = "Payment data validated:"
    THEN {line.amount, line.cardNumber, line.expiryDate, line.cvv}
    ELSE {}

\* C9: the endpoint never logs a card number in full, whatever its length
\* (4 characters or fewer included), and never the CVV.
C9_NeverLogsFullCardNumber ==
    \A i \in Slots :
        (conns[i].pc \in {"json", "responded"} /\ conns[i].method = "POST"
           /\ IsObjectBody(conns[i].body))
        => LET f == conns[i].body.value.f IN
           \A k \in 1..Len(conns[i].console) :
              \A shown \in ShownStrings(conns[i].console[k]) :
                 /\ f["cardNumber"].t = "string"
                      => ~Contains(shown, f["cardNumber"].s)
                 /\ f["cvv"].t = "string" => ~Contains(shown, f["cvv"].s)

---------------------------------------------------------------------------
(* paymentSchema.expiryDate on its own: SpecExpiry.                        *)

ExpiryDigits == {"0", "1", "2", "3", "9"}

ExpiryInputs ==
    {<<a, b, "/", c, d>> : a \in ExpiryDigits, b \in ExpiryDigits,
                           c \in ExpiryDigits, d \in ExpiryDigits}
      \cup { <<>>, <<"1", "/", "9", "9">>, <<"1", "2", "9", "9">>,
             <<"1", "2", "-", "9", "9">>, <<"1", "2", "/", "9">>,
             <<"1", "2", "/", "9", "9", "9">>, <<"a", "b", "/", "c", "d">>,
             <<"1", "2", "/", "2", "0", "9", "9">> }

Clocks == {[y |-> y, m |-> m] : y \in {2019, 2020, 2099, 2100},
                                m \in {0, 1, 10, 11}}

InitExpiry ==
    /\ ApiInit /\ HomeIdle /\ OverlayIdle /\ FormatIdle
    /\ now \in Clocks
    /\ expiryInput \in ExpiryInputs
    /\ expiryResult = "none"

\* the schema's expiryDate rule run on the input, at the current date
ValidateExpiry ==
    /\ expiryResult = "none"
    /\ expiryResult' =
         IF ExpiryValid(expiryInput, now) THEN "accepted" ELSE "rejected"
    /\ UNCHANGED <<apiVars, now, homeVars, overlayVars, expiryInput, fmtVars>>

NextExpiry == ValidateExpiry

SpecExpiry == InitExpiry /\ [][NextExpiry]_vars

E1399 == <<"1", "3", "/", "9", "9">>
E0120 == <<"0", "1", "/", "2", "0">>
E1299 == <<"1", "2", "/", "9", "9">>

\* the two-digit number a pair of characters writes
TwoDigits(a, b) == 10 * DigitVal(a) + DigitVal(b)

\* C10: an expiry string is accepted only if it has the form MM/YY, its
\* month is not greater than 12 and the month/year it names is not in the
\* past relative to the current date; "13/99" is rejected, "01/20" is
\* rejected once January 2020 is past, and "12/99" is accepted exactly when
\* December 2099 is still in the future.
C10_ExpiryValidation ==
    LET s == expiryInput IN
    /\ expiryResult = "accepted" =>
         /\ Len(s) = 5 /\ s[3] = "/"
         /\ \A i \in {1, 2, 4, 5} : s[i] \in Digit
         /\ TwoDigits(s[1], s[2]) <= 12
         /\ \/ 2000 + TwoDigits(s[4], s[5]) > now.y
            \/ /\ 2000 + TwoDigits(s[4], s[5]) = now.y
               /\ TwoDigits(s[1], s[2]) >= now.m + 1
    /\ (expiryResult # "none" /\ s = E1399) => expiryResult = "rejected"
    /\ (expiryResult # "none" /\ s = E0120 /\ (now.y > 2020 \/ (now.y = 2020 /\ now.m > 0)))
         => expiryResult = "rejected"
    /\ (expiryResult # "none" /\ s = E1299) =>
         (expiryResult = "accepted" <=> (now.y < 2099 \/ (now.y = 2099 /\ now.m < 11)))

\* "12/99" accepted in November 2099
C10_Witness ==
    /\ expiryInput = E1299
    /\ now = [y |-> 2099, m |-> 10]
    /\ expiryResult = "accepted"

\* C15: every expiry string the schema accepts names a real calendar month:
\* its MM part is between 01 and 12, so "00/YY" is rejected for every YY,
\* and the month the acceptance rests on is the month typed, not one rolled
\* over into a neighbouring year.
C15_AcceptedMonthIsReal ==
    expiryResult = "accepted" =>
        LET month == TwoDigits(expiryInput[1], expiryInput[2])
            year == 2000 + TwoDigits(expiryInput[4], expiryInput[5])
        IN  /\ month >= 1
            /\ month <= 12
            /\ NewDate(year, month - 1) = [y |-> year, m |-> month - 1]

---------------------------------------------------------------------------
(* Home.getFilteredAccounts on its own: SpecFilter.                        *)

\* The filter with its comparison inverted.
getFilteredAccountsInverted(accts, type) ==
    SelectSeq(accts, LAMBDA a : type = "ALL" \/ a.type # type)

\* accounts.filter(account => selectedType === "ALL" ? true
\*                                                   : account.type === selectedType)
RECURSIVE getFilteredAccounts(_, _)
getFilteredAccounts(accts, type) ==
    IF Len(accts) = 0 THEN <<>>
    ELSE (IF (IF type = "ALL" THEN TRUE ELSE accts[1].type = type)
          THEN <<accts[1]>> ELSE <<>>)
           \o getFilteredAccounts(Tail(accts), type)

AccountSamples ==
    {InitialAccounts[1], InitialAccounts[2], InitialAccounts[3], InitialAccounts[5]}

RECURSIVE ListsUpTo(_)
ListsUpTo(n) ==
    IF n = 0 THEN {<<>>}
    ELSE LET shorter == ListsUpTo(n - 1) IN
         shorter \cup {Append(l, a) : l \in {x \in shorter : Len(x) = n - 1},
                                     a \in AccountSamples}

FilterTags == {"ALL", "ELECTRICITY", "GAS"}

InitFilter ==
    /\ ApiInit /\ ClockInit /\ OverlayIdle /\ ExpiryIdle /\ FormatIdle
    /\ accounts \in ListsUpTo(MaxAccounts)
    /\ selectedAccount = Null
    /\ selectedType = "ALL"
    /\ loading = FALSE
    /\ fetchPc = [pc |-> "done", failed |-> FALSE]
    /\ nFetch = 1

\* Home.handleTypeFilter(type)()
handleTypeFilter(type) ==
    /\ selectedType' = type
    /\ UNCHANGED <<accounts, selectedAccount, loading, fetchPc, nFetch>>
    /\ UNCHANGED <<apiVars, now, overlayVars, expiryVars, fmtVars>>

NextFilter == \E type \in FilterTags : handleTypeFilter(type)

SpecFilter == InitFilter /\ [][NextFilter]_vars

\* the positions of the list whose account has the selected type
Matching == {i \in 1..Len(accounts) : accounts[i].type = selectedType}

\* the k-th smallest of those positions
KthMatching(k) ==
    CHOOSE i \in Matching : Cardinality({j \in Matching : j < i}) = k - 1

\* C4: with tag ALL the filter returns the list itself; with tag ELECTRICITY
\* or GAS it returns exactly the elements whose type is the tag, in their
\* original relative order, nothing added and no matching element dropped.
C4_FilterCorrect ==
    LET r == getFilteredAccounts(accounts, selectedType) IN
    /\ selectedType = "ALL" => r = accounts
    /\ selectedType # "ALL" =>
         /\ Len(r) = Cardinality(Matching)
         /\ \A k \in 1..Len(r) : r[k] = accounts[KthMatching(k)]

\* GAS selected on a list that holds both types
C4_Witness ==
    /\ selectedType = "GAS"
    /\ Len(accounts) >= 3
    /\ \E i, j \in 1..Len(accounts) :
         accounts[i].type = "GAS" /\ accounts[j].type = "ELECTRICITY"
    /\ Len(getFilteredAccounts(accounts, selectedType)) \in 1..(Len(accounts) - 1)

---------------------------------------------------------------------------
(* The input formatters and the amount field's sanitiser.                  *)

\* value.replace(/\D/g, "")
RECURSIVE DigitsOnly(_)
DigitsOnly(s) ==
    IF Len(s) = 0 THEN <<>>
    ELSE (IF s[1] \in Digit THEN <<s[1]>> ELSE <<>>) \o DigitsOnly(Tail(s))

\* every group followed by a space, the last one included
RECURSIVE GroupsOfFourSpaceAfterEach(_)
GroupsOfFourSpaceAfterEach(s) ==
    IF Len(s) = 0 THEN s
    ELSE IF Len(s) <= 4 THEN s \o <<" ">>
    ELSE SubSeq(s, 1, 4) \o <<" ">> \o GroupsOfFourSpaceAfterEach(SubSeq(s, 5, Len(s)))

\* numericValue.match(/.{1,4}/g).join(" ")
RECURSIVE GroupsOfFour(_)
GroupsOfFour(s) ==
    IF Len(s) <= 4 THEN s
    ELSE SubSeq(s, 1, 4) \o <<" ">> \o GroupsOfFour(SubSeq(s, 5, Len(s)))

\* formatCardNumber without its value.replace(/\D/g, "")
formatCardNumberKeepingSeparators(value) == GroupsOfFour(SliceFirst(value, 16))

formatCardNumber(value) == GroupsOfFour(SliceFirst(DigitsOnly(value), 16))

\* formatExpiryDate with cleaned.length > 2 for its condition
formatExpiryDateSlashAfterThird(value) ==
    LET cleaned == SliceFirst(DigitsOnly(value), 4) IN
    IF Len(cleaned) > 2
    THEN SubSeq(cleaned, 1, 2) \o <<"/">> \o SubSeq(cleaned, 3, Len(cleaned))
    ELSE cleaned

formatExpiryDate(value) ==
    LET cleaned == SliceFirst(DigitsOnly(value), 4) IN
    IF Len(cleaned) >= 2
    THEN SubSeq(cleaned, 1, 2) \o <<"/">> \o SubSeq(cleaned, 3, Len(cleaned))
    ELSE cleaned

\* formatCVV with slice(0, 5)
formatCVVSliceFive(value) == SliceFirst(DigitsOnly(value), 5)

formatCVV(value) == SliceFirst(DigitsOnly(value), 4)

\* value.replace(/[^\d.]/g, "")
RECURSIVE DigitsAndDots(_)
DigitsAndDots(s) ==
    IF Len(s) = 0 THEN <<>>
    ELSE (IF s[1] \in Digit \cup {"."} THEN <<s[1]>> ELSE <<>>)
           \o DigitsAndDots(Tail(s))

\* handleAmountChange: the value it hands to setValue("amount", ...)
formatAmount(value) ==
    LET sanitized == DigitsAndDots(value)
        dot == IndexOf(sanitized, ".")
        dots == Cardinality({i \in 1..Len(sanitized) : sanitized[i] = "."})
    IN  IF dots = 0 THEN sanitized
        ELSE IF dots = 1
        THEN SubSeq(sanitized, 1, dot - 1) \o <<".">>
               \o SliceFirst(SubSeq(sanitized, dot + 1, Len(sanitized)), 2)
        ELSE SubSeq(sanitized, 1, dot - 1) \o <<".">>
               \o SliceFirst(DigitsOnly(SubSeq(sanitized, dot + 1, Len(sanitized))), 2)

---------------------------------------------------------------------------
(* The dashboard (Home) and the payment overlay (PaymentForm): SpecUi.     *)

OverlayShown == selectedAccount # Null

\* the PaymentForm instance inst is the one mounted now
Mounted(inst) == OverlayShown /\ instance = inst

SetOverlay(o) ==
    /\ focused' = o.focused
    /\ isProcessing' = o.isProcessing
    /\ paymentError' = o.paymentError
    /\ form' = o.form

RemoveAt(s, k) == SubSeq(s, 1, k - 1) \o SubSeq(s, k + 1, Len(s))

HomeFrame == UNCHANGED <<apiVars, now, expiryVars, fmtVars>>

\* useEffect(() => { fetchAccounts(); }, []): fetchAccounts up to await fetch(...)
useEffectMount ==
    /\ fetchPc.pc = "unmounted"
    /\ fetchPc' = [pc |-> "fetch"]
    /\ nFetch' = nFetch + 1
    /\ UNCHANGED <<accounts, selectedAccount, selectedType, loading, overlayVars>>
    /\ HomeFrame

\* Loading cleared only when the fetch succeeded.
LoadingAfterFetchTryOnly(ok) == IF ok THEN FALSE ELSE loading

\* finally { setLoading(false); }
LoadingAfterFetch(ok) == FALSE

FetchOutcomes == {"networkError", "server", "gateway"}

\* await fetch("/api/getAccounts") settles: it rejects, or a response arrives,
\* from the endpoint or, not JSON, from something in front of it
FetchSettle(outcome) ==
    /\ fetchPc.pc = "fetch"
    /\ IF outcome = "networkError"
       THEN /\ fetchPc' = [pc |-> "done", failed |-> TRUE]
            /\ loading' = LoadingAfterFetch(FALSE)
       ELSE /\ fetchPc' = IF outcome = "server"
                          THEN [pc |-> "json", parses |-> TRUE,
                                data |-> GetResponse(store).json]
                          ELSE [pc |-> "json", parses |-> FALSE]
            /\ UNCHANGED loading
    /\ UNCHANGED <<accounts, selectedAccount, selectedType, nFetch, overlayVars>>
    /\ HomeFrame

\* await response.json() settles; setAccounts(data) or the catch; the finally
FetchJson ==
    /\ fetchPc.pc = "json"
    /\ accounts' = IF fetchPc.parses THEN fetchPc.data ELSE accounts
    /\ loading' = LoadingAfterFetch(fetchPc.parses)
    /\ fetchPc' = [pc |-> "done", failed |-> ~fetchPc.parses]
    /\ UNCHANGED <<selectedAccount, selectedType, nFetch, overlayVars>>
    /\ HomeFrame

\* the accounts whose card is rendered
RenderedAccounts ==
    IF loading THEN {}
    ELSE LET r == getFilteredAccounts(accounts, selectedType) IN
         {r[i] : i \in 1..Len(r)}

\* Home.handleOpenPayment(account); a PaymentForm mounts when none is shown
handleOpenPayment(account) ==
    /\ account \in RenderedAccounts
    /\ selectedAccount' = account
    /\ IF OverlayShown
       THEN UNCHANGED <<instance, focused, isProcessing, paymentError, form>>
       ELSE /\ instance < MaxOpens
            /\ instance' = instance + 1
            /\ SetOverlay(FreshOverlay)
    /\ UNCHANGED <<accounts, selectedType, loading, fetchPc, nFetch, lastToast, subs>>
    /\ HomeFrame

\* Cancel button: disabled={isProcessing}
CancelDisabled == isProcessing

\* The submit button never disabled.
SubmitDisabledNever == FALSE

\* Pay Now button: disabled={isProcessing}
SubmitDisabled == isProcessing

\* Cancel clicked: Home.handleClosePayment(); the PaymentForm unmounts
handleClosePayment ==
    /\ OverlayShown
    /\ ~CancelDisabled
    /\ selectedAccount' = Null
    /\ SetOverlay(FreshOverlay)
    /\ UNCHANGED <<accounts, selectedType, loading, fetchPc, nFetch, instance,
                   lastToast, subs>>
    /\ HomeFrame

FocusFields == {"amount", "number", "expiry", "cvc"}

OverlayFrame ==
    UNCHANGED <<apiVars, now, expiryVars, fmtVars, accounts, selectedType,
                loading, fetchPc, nFetch, instance>>

\* PaymentForm.handleFocus(field)()
handleFocus(field) ==
    /\ OverlayShown
    /\ focused' = field
    /\ UNCHANGED <<selectedAccount, isProcessing, paymentError, form, lastToast, subs>>
    /\ OverlayFrame

AmountTyped == { <<"$", "5", "0", ".", "0", "0", "9">>, <<"0">> }
CardTyped == { CardSample }
ExpiryTyped == { <<"1", "2", "3", "0">> }
CvvTyped == { <<"9", "8", "7", "6", "5">> }

\* setValue(field, value), for the handlers of the four inputs
FieldFrame ==
    /\ UNCHANGED <<selectedAccount, focused, isProcessing, paymentError, lastToast, subs>>
    /\ OverlayFrame

handleAmountChange(value) ==
    /\ OverlayShown
    /\ form' = [form EXCEPT !.amount = formatAmount(value)]
    /\ FieldFrame

handleCardNumberChange(value) ==
    /\ OverlayShown
    /\ form' = [form EXCEPT !.cardNumber = formatCardNumber(value)]
    /\ FieldFrame

handleExpiryDateChange(value) ==
    /\ OverlayShown
    /\ form' = [form EXCEPT !.expiryDate = formatExpiryDate(value)]
    /\ FieldFrame

handleCVVChange(value) ==
    /\ OverlayShown
    /\ form' = [form EXCEPT !.cvv = formatCVV(value)]
    /\ FieldFrame

\* zodResolver(paymentSchema) on the field values
FormValid(f, clock) ==
    /\ AmountValid(f.amount)
    /\ CardNumberValid(f.cardNumber)
    /\ ExpiryValid(f.expiryDate, clock)
    /\ CvvValid(f.cvv)

\* JSON.stringify({...data, accountId, accountType})
SubmitBody(f, account) ==
    [kind |-> "json",
     value |-> [t |-> "object",
                f |-> [x \in {"amount", "cardNumber", "expiryDate", "cvv",
                              "accountId", "accountType"} |->
                         CASE x = "amount" -> Str(f.amount)
                           [] x = "cardNumber" -> Str(f.cardNumber)
                           [] x = "expiryDate" -> Str(f.expiryDate)
                           [] x = "cvv" -> Str(f.cvv)
                           [] x = "accountId" -> Str(account.id)
                           [] x = "accountType" -> Str(account.type)]]]

\* The form submitted: handleSubmit runs the resolver and, when the values are
\* valid, handlePaymentSubmit up to its await fetch(...)
SubmitForm ==
    /\ OverlayShown
    /\ ~SubmitDisabled
    /\ Len(subs) < MaxSubmits
    /\ IF FormValid(form, now)
       THEN /\ isProcessing' = TRUE
            /\ paymentError' = Null
            /\ lastToast' = "loading"
            /\ subs' = Append(subs, [inst |-> instance, pc |-> "fetch",
                                     body |-> SubmitBody(form, selectedAccount)])
       ELSE UNCHANGED <<isProcessing, paymentError, lastToast, subs>>
    /\ UNCHANGED <<selectedAccount, focused, form>>
    /\ OverlayFrame

\* The finally block left out.
IsProcessingWithoutFinally == isProcessing

\* finally { setIsProcessing(false); }
IsProcessingAfterFinally == FALSE

\* the catch block and the finally block of handlePaymentSubmit, for the error
\* message msg of submission k
SubmitFailed(k, msg) ==
    /\ IF Mounted(subs[k].inst)
       THEN /\ paymentError' = [msg |-> msg]
            /\ isProcessing' = IsProcessingAfterFinally
       ELSE UNCHANGED <<paymentError, isProcessing>>
    /\ lastToast' = "error"
    /\ subs' = RemoveAt(subs, k)
    /\ UNCHANGED <<selectedAccount, focused, form>>

SubmitOutcomes == {"networkError", "server", "gateway", "unavailable"}

\* await fetch("/api/processPayment", ...) settles: it rejects, or a response
\* arrives: the endpoint's, or one from something in front of it
SubmitFetchSettle(k, outcome) ==
    /\ k \in 1..Len(subs)
    /\ subs[k].pc = "fetch"
    /\ IF outcome = "networkError"
       THEN SubmitFailed(k, "Failed to fetch")
       ELSE /\ subs' = [subs EXCEPT ![k] =
                  [inst |-> subs[k].inst, pc |-> "json", body |-> subs[k].body,
                   response |->
                     CASE outcome = "server" ->
                            LET out == PostOutcome(subs[k].body) IN
                            [status |-> out.status, parses |-> TRUE,
                             json |-> out.json]
                       [] outcome = "gateway" ->
                            [status |-> 502, parses |-> FALSE]
                       [] outcome = "unavailable" ->
                            [status |-> 503, parses |-> TRUE,
                             json |-> [error |-> "Service Unavailable"]]]]
            /\ UNCHANGED <<selectedAccount, focused, isProcessing, paymentError,
                           form, lastToast>>
    /\ OverlayFrame

\* response.ok
ResponseOk(r) == r.status \in 200..299

\* result.message || "Payment failed"
ResultMessage(json) ==
    IF "message" \in DOMAIN json /\ json.message # ""
    THEN json.message ELSE "Payment failed"

\* await response.json() settles, and the rest of handlePaymentSubmit
SubmitJsonSettle(k) ==
    /\ k \in 1..Len(subs)
    /\ subs[k].pc = "json"
    /\ LET r == subs[k].response IN
       IF ~r.parses
       THEN SubmitFailed(k, "Unexpected token < in JSON at position 0")
       ELSE IF ~ResponseOk(r)
       THEN SubmitFailed(k, ResultMessage(r.json))
       ELSE /\ lastToast' = "success"
            /\ selectedAccount' = Null
            /\ SetOverlay(FreshOverlay)
            /\ subs' = RemoveAt(subs, k)
    /\ OverlayFrame

InitUi ==
    ApiInit /\ ClockInit /\ HomeIdle /\ OverlayIdle /\ ExpiryIdle /\ FormatIdle

NextUi ==
    \/ useEffectMount
    \/ \E outcome \in FetchOutcomes : FetchSettle(outcome)
    \/ FetchJson
    \/ \E type \in FilterTags : handleTypeFilter(type)
    \/ \E account \in RenderedAccounts : handleOpenPayment(account)
    \/ handleClosePayment
    \/ \E field \in FocusFields : handleFocus(field)
    \/ \E value \in AmountTyped : handleAmountChange(value)
    \/ \E value \in CardTyped : handleCardNumberChange(value)
    \/ \E value \in ExpiryTyped : handleExpiryDateChange(value)
    \/ \E value \in CvvTyped : handleCVVChange(value)
    \/ SubmitForm
    \/ \E k \in 1..MaxSubmits, outcome \in SubmitOutcomes : SubmitFetchSettle(k, outcome)
    \/ \E k \in 1..MaxSubmits : SubmitJsonSettle(k)

SpecUi == InitUi /\ [][NextUi]_vars

\* the scheduling the event loop guarantees: a settled response is handled
SpecUiFair == SpecUi /\ WF_vars(FetchJson)

---------------------------------------------------------------------------
(* Claims about the dashboard and the overlay (SpecUi, SpecUiFair).        *)

\* C5: at most one payment submission is in flight at any time, and while
\* one is, the overlay that started it is in its processing state.
C5_OneSubmissionInFlight ==
    /\ Len(subs) <= 1
    /\ Len(subs) = 1 => (isProcessing /\ Mounted(subs[1].inst))

\* a submission whose response has arrived and is being read
C5_Witness ==
    /\ Len(subs) = 1
    /\ subs[1].pc = "json"
    /\ isProcessing

\* submission k ends in this step with an OK response that parsed
EndsOk(k) ==
    /\ subs[k].pc = "json"
    /\ subs[k].response.parses
    /\ subs[k].response.status >= 200
    /\ subs[k].response.status <= 299

\* C6: every submission that receives an answer leaves the submitting state:
\* on an OK response the overlay is closed and no error is recorded; on a
\* non-OK response or a fetch/JSON failure the overlay stays open with
\* paymentError set to a message, isProcessing false and the submit button
\* enabled again. isProcessing is never true without a submission in flight.
C6_SubmissionLeavesSubmitting ==
    /\ [](isProcessing => Len(subs) >= 1)
    /\ [][\A k \in 1..Len(subs) :
            (subs' = RemoveAt(subs, k)) =>
               /\ isProcessing' = FALSE
               /\ EndsOk(k) => (selectedAccount' = Null /\ paymentError' = Null)
               /\ ~EndsOk(k) =>
                    /\ selectedAccount' = selectedAccount
                    /\ selectedAccount' # Null
                    /\ paymentError' # Null
                    /\ paymentError'.msg # ""
                    /\ ~SubmitDisabled']_vars

\* the overlay open with an error message after a failed submission
C6_Witness ==
    /\ OverlayShown
    /\ lastToast = "error"
    /\ paymentError # Null
    /\ ~isProcessing
    /\ subs = <<>>

\* C7 as claimed: a user-triggered close is possible in every overlay state,
\* the submitting state included.
C7_CloseInEveryState == OverlayShown => ENABLED handleClosePayment

\* C7 as amended: a user-triggered close is possible in every overlay state
\* in which no submission is in flight (idle, focus-tracking,
\* idle-with-error); after a close the overlay is not shown, and an overlay
\* opened afterwards starts with no focused field, isProcessing false, no
\* paymentError and empty form fields.
C7_CloseDiscardsState ==
    /\ []((OverlayShown /\ ~isProcessing) => ENABLED handleClosePayment)
    /\ [][(OverlayShown /\ ~OverlayShown') =>
            (instance' = instance /\ subs' = <<>>)]_vars
    /\ [][(~OverlayShown /\ OverlayShown') =>
            /\ instance' = instance + 1
            /\ focused' = ""
            /\ isProcessing' = FALSE
            /\ paymentError' = Null
            /\ \A x \in DOMAIN form' : form'[x] = <<>>]_vars

\* a second overlay, opened after the first was cancelled with an error shown
C7_Witness ==
    /\ OverlayShown
    /\ instance >= 2
    /\ lastToast = "error"
    /\ focused = ""
    /\ ~isProcessing
    /\ paymentError = Null
    /\ form = EmptyForm

\* C8: the dashboard issues the account fetch exactly once, on load, and
\* never again; whatever the fetch's outcome the loading state is cleared
\* once the outcome is handled, which it eventually is; after a failure the
\* account list is empty and the filter buttons still work.
C8_FetchOnceLoadingCleared ==
    /\ [](nFetch <= 1 /\ (fetchPc.pc # "unmounted" => nFetch = 1))
    /\ [](fetchPc.pc = "done" =>
            /\ loading = FALSE
            /\ fetchPc.failed => (accounts = <<>> /\ ENABLED handleTypeFilter("GAS")))
    /\ (fetchPc.pc = "json" ~> loading = FALSE)

\* the filter used after the fetch failed
C8_Witness ==
    /\ fetchPc.pc = "done"
    /\ fetchPc.failed
    /\ nFetch = 1
    /\ ~loading
    /\ accounts = <<>>
    /\ selectedType = "GAS"

---------------------------------------------------------------------------
(* The formatters and paymentSchema.cvv on their own: SpecFormat.          *)
(* The raw input is any string a user can leave in a field; a formatter is *)
(* applied to it once, and then once more to its own output, as happens    *)
(* when a change event arrives for a field that already holds a formatted  *)
(* value.                                                                  *)

\* characters a raw input is made of: digits, the separators the formatters
\* insert themselves, and a letter
FormatAlphabet == {"1", "2", " ", "/", "x"}

RECURSIVE StringsUpTo(_)
StringsUpTo(n) ==
    IF n = 0 THEN {<<>>}
    ELSE StringsUpTo(n - 1)
           \cup {Append(s, c) : s \in {x \in StringsUpTo(n - 1) : Len(x) = n - 1},
                                c \in FormatAlphabet}

\* longer tails: card numbers of 16 and 19 digits, a formatted card number,
\* a dashed one, a mixed one
FormatTails ==
    { <<>>,
      <<"3", "4">>,
      <<"3", "4", "5">>,
      <<"4", "2", "4", "2", "4", "2", "4", "2", "4", "2", "4", "2", "4", "2", "4", "2">>,
      <<"4", "2", "4", "2", " ", "4", "2", "4", "2", " ", "4", "2", "4", "2", " ", "4", "2", "4", "2">>,
      <<"3", "4", "5", "6", "7", "8", "9", "0", "1", "2", "3", "4", "5", "6", "7", "8", "9", "0", "1">>,
      <<"3", "4", "5", "6", "-", "7", "8", "9", "0", "-", "1", "2", "3", "4", "-", "5">>,
      <<"3", "a", "4", "/", "5", " ", "6">> }

FormatInputs == {s \o tl : s \in StringsUpTo(MaxTyped), tl \in FormatTails}

InitFormat ==
    /\ ApiInit /\ ClockInit /\ HomeIdle /\ OverlayIdle /\ ExpiryIdle
    /\ fmtInput \in FormatInputs
    /\ fmtOutput = [fn |-> "none"]

FormatFrame ==
    UNCHANGED <<apiVars, now, homeVars, overlayVars, expiryVars, fmtInput>>

\* formatCardNumber(value) on the raw input
ApplyFormatCardNumber ==
    /\ fmtOutput.fn = "none"
    /\ fmtOutput' = [fn |-> "formatCardNumber", calls |-> 1,
                     out |-> formatCardNumber(fmtInput)]
    /\ FormatFrame

\* formatExpiryDate(value) on the raw input
ApplyFormatExpiryDate ==
    /\ fmtOutput.fn = "none"
    /\ fmtOutput' = [fn |-> "formatExpiryDate", calls |-> 1,
                     out |-> formatExpiryDate(fmtInput)]
    /\ FormatFrame

\* formatCVV(value) on the raw input
ApplyFormatCVV ==
    /\ fmtOutput.fn = "none"
    /\ fmtOutput' = [fn |-> "formatCVV", calls |-> 1,
                     out |-> formatCVV(fmtInput)]
    /\ FormatFrame

Formatted(fn, value) ==
    CASE fn = "formatCardNumber" -> formatCardNumber(value)
      [] fn = "formatExpiryDate" -> formatExpiryDate(value)
      [] fn = "formatCVV" -> formatCVV(value)

\* the same formatter on the value it returned
FormatAgain ==
    /\ fmtOutput.fn \in {"formatCardNumber", "formatExpiryDate", "formatCVV"}
    /\ fmtOutput.calls = 1
    /\ fmtOutput' = [fn |-> fmtOutput.fn, calls |-> 2, first |-> fmtOutput.out,
                     out |-> Formatted(fmtOutput.fn, fmtOutput.out)]
    /\ FormatFrame

CvvVerdict(s) == IF CvvValid(s) THEN "accepted" ELSE "rejected"

\* paymentSchema.cvv on the raw input
ValidateCvv ==
    /\ fmtOutput.fn = "none"
    /\ fmtOutput' = [fn |-> "cvvSchema", verdict |-> CvvVerdict(fmtInput)]
    /\ FormatFrame

\* paymentSchema.cvv on what formatCVV returned
ValidateFormattedCvv ==
    /\ fmtOutput.fn = "formatCVV"
    /\ fmtOutput.calls = 1
    /\ fmtOutput' = [fn |-> "cvvSchemaOfFormatted", out |-> fmtOutput.out,
                     verdict |-> CvvVerdict(fmtOutput.out)]
    /\ FormatFrame

NextFormat ==
    \/ ApplyFormatCardNumber
    \/ ApplyFormatExpiryDate
    \/ ApplyFormatCVV
    \/ FormatAgain
    \/ ValidateCvv
    \/ ValidateFormattedCvv

SpecFormat == InitFormat /\ [][NextFormat]_vars

---------------------------------------------------------------------------
(* Claims about the formatters and the CVV rule (SpecFormat).              *)

\* the positions of a string that hold a decimal digit
DigitPositions(s) == {i \in 1..Len(s) : s[i] \in Digit}

\* the position of the k-th digit of s
KthDigitPosition(s, k) ==
    CHOOSE i \in DigitPositions(s) :
        Cardinality({j \in DigitPositions(s) : j <= i}) = k

\* the first n digits of s (all of them when there are fewer), in order
FirstDigits(s, n) ==
    LET have == Cardinality(DigitPositions(s))
        take == IF have <= n THEN have ELSE n
    IN  [k \in 1..take |-> s[KthDigitPosition(s, k)]]

HasNonDigit(s) == \E i \in 1..Len(s) : s[i] \notin Digit

Cvv12 == <<"1", "2">>
Cvv1234 == <<"1", "2", "3", "4">>
Cvv12345 == <<"1", "2", "3", "4", "5">>

\* C11: paymentSchema accepts a CVV exactly when it consists of 3 or 4
\* decimal digits and nothing else ("12" rejected, "1234" accepted, "12345"
\* rejected); formatCVV returns the first 4 digits of its input (all of them
\* when there are fewer), non-digits removed ("12345" gives "1234"), so the
\* schema never rejects a formatted CVV for being too long.
C11_CvvRuleAndFormatter ==
    /\ fmtOutput.fn = "cvvSchema" =>
        /\ fmtOutput.verdict = "accepted" <=>
              /\ Len(fmtInput) \in {3, 4}
              /\ DigitPositions(fmtInput) = 1..Len(fmtInput)
        /\ fmtInput = Cvv12 => fmtOutput.verdict = "rejected"
        /\ fmtInput = Cvv1234 => fmtOutput.verdict = "accepted"
        /\ fmtInput = Cvv12345 => fmtOutput.verdict = "rejected"
    /\ fmtOutput.fn = "none" => ENABLED ApplyFormatCVV
    /\ fmtOutput.fn = "formatCVV" /\ fmtOutput.calls = 1 =>
        /\ fmtOutput.out = FirstDigits(fmtInput, 4)
        /\ fmtInput = Cvv12345 => fmtOutput.out = Cvv1234
    /\ fmtOutput.fn = "cvvSchemaOfFormatted" =>
        /\ Len(fmtOutput.out) <= 4
        /\ fmtOutput.verdict = "rejected" => Len(fmtOutput.out) < 3

C11_Witness ==
    /\ fmtOutput.fn = "cvvSchemaOfFormatted"
    /\ Cardinality(DigitPositions(fmtInput)) > 4
    /\ HasNonDigit(fmtInput)
    /\ Len(fmtOutput.out) = 4
    /\ fmtOutput.verdict = "accepted"

\* C12: formatCardNumber is idempotent: applied to a value it returned, it
\* returns that value again.
C12_FormatCardNumberIdempotent ==
    fmtOutput.fn = "formatCardNumber" /\ fmtOutput.calls = 2 =>
        fmtOutput.out = fmtOutput.first

C12_Witness ==
    /\ fmtOutput.fn = "formatCardNumber"
    /\ fmtOutput.calls = 2
    /\ fmtOutput.first # fmtInput
    /\ Len(fmtOutput.first) = 19
    /\ fmtOutput.out = fmtOutput.first

\* C13: formatCardNumber answers for every input; its result holds the first
\* 16 digits of the input (all of them when there are fewer) in their order,
\* without any non-digit of the input, in groups of 4 of which only the last
\* may be shorter, the groups separated by exactly one space, with no space
\* at either end; an input without digits gives the empty string.
C13_FormatCardNumberShape ==
    /\ fmtOutput.fn = "none" => ENABLED ApplyFormatCardNumber
    /\ fmtOutput.fn = "formatCardNumber" /\ fmtOutput.calls = 1 =>
        LET digits == FirstDigits(fmtInput, 16)
            n == Len(digits)
            out == fmtOutput.out
        IN  /\ Len(out) = IF n = 0 THEN 0 ELSE n + ((n - 1) \div 4)
            /\ \A i \in 1..Len(out) :
                  IF i % 5 = 0 THEN out[i] = " "
                  ELSE out[i] = digits[i - (i \div 5)]
            /\ Len(out) > 0 => out[1] # " " /\ out[Len(out)] # " "
            /\ DigitPositions(fmtInput) = {} => out = <<>>

C13_Witness ==
    /\ fmtOutput.fn = "formatCardNumber"
    /\ fmtOutput.calls = 1
    /\ Cardinality(DigitPositions(fmtInput)) > 16
    /\ HasNonDigit(fmtInput)
    /\ Len(fmtOutput.out) = 19
    /\ \E i, j \in 1..16 : fmtOutput.out[i + (i - 1) \div 4] # fmtOutput.out[j + (j - 1) \div 4]

\* C14: formatExpiryDate answers for every input; it keeps the first 4
\* digits of the input (all of them when there are fewer); with fewer than 2
\* digits it returns them as they are, otherwise the first 2, one "/", and
\* the remaining 0 to 2 digits; its result never holds more than one "/",
\* and applied to a value it returned it returns that value again.
C14_FormatExpiryDateShape ==
    /\ fmtOutput.fn = "none" => ENABLED ApplyFormatExpiryDate
    /\ fmtOutput.fn = "formatExpiryDate" =>
        Cardinality({i \in 1..Len(fmtOutput.out) : fmtOutput.out[i] = "/"}) <= 1
    /\ fmtOutput.fn = "formatExpiryDate" /\ fmtOutput.calls = 1 =>
        LET digits == FirstDigits(fmtInput, 4)
            n == Len(digits)
            out == fmtOutput.out
        IN  IF n < 2 THEN out = digits
            ELSE /\ Len(out) = n + 1
                 /\ out[1] = digits[1]
                 /\ out[2] = digits[2]
                 /\ out[3] = "/"
                 /\ \A i \in 4..Len(out) : out[i] = digits[i - 1]
    /\ fmtOutput.fn = "formatExpiryDate" /\ fmtOutput.calls = 2 =>
        fmtOutput.out = fmtOutput.first

C14_Witness ==
    /\ fmtOutput.fn = "formatExpiryDate"
    /\ fmtOutput.calls = 2
    /\ Cardinality(DigitPositions(fmtInput)) = 2
    /\ HasNonDigit(fmtInput)
    /\ Len(fmtOutput.first) = 3
    /\ fmtOutput.first[3] = "/"
    /\ fmtOutput.out = fmtOutput.first

===========================================================================
